---------------------------- MODULE Spec2Model ----------------------------
(***************************************************************************)
(* Sortition core of the pos33 consensus plugin                            *)
(* (plugin/consensus/pos33/sortition.go).                                  *)
(*                                                                         *)
(* The source file holds two revisions of the package.  The first          *)
(* (lines 1-270) has makerSort, voterSort, verifySort(height, step, seed,  *)
(* m) and getMakerSorts; the second (lines 272-522) has sort, calcDiff,    *)
(* verifySort(height, step, allw, seed, m) and bp.  Both are modelled; the *)
(* second revision's verifier is named verifySortAllw here.                *)
(*                                                                         *)
(* Byte strings are sequences over 0..255.  Digests are HashLen bytes      *)
(* wide instead of 32, and fmax is 2^(8*HashLen) instead of 2^256.         *)
(* float64 difficulties are exact rationals [n, d] with d > 0.             *)
(***************************************************************************)
EXTENDS Integers, Sequences, FiniteSets, TLC

\* --------------------------------------------------------------------
\* Constants of plugin/dapp/pos33/types (declared outside the two source
\* files; the values here are scaled to the size of the model).
\* --------------------------------------------------------------------
Pos33SortBlocks == 2

Pos33MakerSize == 2

Pos33VoterSize == 3

Pos33ProposerSize == 2

Pos33RewardVotes == 4

\* the look-back constant under its name in the second revision
Pos33SortitionSize == 2

calcuDiffBlockN == 2

\* Number of maker trials per ticket (for j := 0; j < 3; j++).
MakerTrials == 3

\* --------------------------------------------------------------------
\* Bounds of the model.
\* --------------------------------------------------------------------
MaxCount == 5

MaxHeight == 4

MaxIndex == 2

MaxAllw == 4

MaxSorts == 3

\* --------------------------------------------------------------------
\* Bytes, digests and the canonical string.
\* --------------------------------------------------------------------
HashLen == 2

\* var max = 2^256, var fmax = float(max): here 2^(8*HashLen).
fmax == 256 * 256

RECURSIVE Mix(_, _)
Mix(data, h) ==
    IF data = <<>> THEN h
    ELSE Mix(Tail(data),
             ((h % 256) * ((h \div 256) + Head(data) + 3)
                + h * 7 + Head(data) * 131 + 11) % fmax)

\* big-endian bytes of a digest value, HashLen wide
RECURSIVE ToBytes(_, _)
ToBytes(v, len) ==
    IF len = 0 THEN <<>> ELSE Append(ToBytes(v \div 256, len - 1), v % 256)

\* crypto.Sha256: a fixed deterministic digest of HashLen bytes.
Sha256(data) == ToBytes((Mix(data, 40503) * 25173 + 13849) % fmax, HashLen)

hash2(data) == Sha256(Sha256(data))

\* new(big.Int).SetBytes(b): the big-endian unsigned value of b.
RECURSIVE SetBytes(_)
SetBytes(b) ==
    IF b = <<>> THEN 0
    ELSE SetBytes(SubSeq(b, 1, Len(b) - 1)) * 256 + b[Len(b)]

\* string(a) > string(b) in Go: unsigned byte lexicographic order.
RECURSIVE StrGreater(_, _)
StrGreater(a, b) ==
    IF a = <<>> THEN FALSE
    ELSE IF b = <<>> THEN TRUE
    ELSE IF Head(a) # Head(b) THEN Head(a) > Head(b)
    ELSE StrGreater(Tail(a), Tail(b))

\* ASCII codes of the characters the canonical string uses.
HexDigit(v) == IF v < 10 THEN 48 + v ELSE 87 + v

\* %x of a byte string: two lowercase hex digits per byte.
RECURSIVE Hex(_)
Hex(b) ==
    IF b = <<>> THEN <<>>
    ELSE <<HexDigit(Head(b) \div 16), HexDigit(Head(b) % 16)>> \o Hex(Tail(b))

\* %d of a non-negative integer.
RECURSIVE DecNat(_)
DecNat(v) ==
    IF v < 10 THEN <<48 + v>> ELSE Append(DecNat(v \div 10), 48 + (v % 10))

\* %d of an integer: a leading '-' for negatives, no padding.
Dec(v) == IF v < 0 THEN <<45>> \o DecNat(0 - v) ELSE DecNat(v)

\* fmt.Sprintf("%x+%d+%d", vrfHash, index, num)
SortData(vrfHash, index, num) ==
    Hex(vrfHash) \o <<43>> \o Dec(index) \o <<43>> \o Dec(num)

\* fmt.Sprintf("%x+%d", vrfHash, index) of the second revision
SortDataAllw(vrfHash, index) == Hex(vrfHash) \o <<43>> \o Dec(index)

\* new(big.Float).Quo(z, fmax).Cmp(big.NewFloat(diff)) > 0, with
\* z = SetBytes(hash): the quotient is exact (a division by a power of two
\* at the precision of fmax), so this is y / fmax > diff over the rationals.
DiffExceeded(hash, diff) == SetBytes(hash) * diff.d > diff.n * fmax

\* --------------------------------------------------------------------
\* Keys, VRF and the protobuf encoding of the VRF input.
\* --------------------------------------------------------------------
Nil == [nil |-> TRUE]

\* getPriv() == nil
NoKey == 0

\* priv.PubKey().Bytes(): a compressed public key.
PubKey(priv) == <<2, priv>>

\* types.Encode(input): the fields in field order, each with its tag.
Encode(input) ==
    <<10, Len(input.Seed)>> \o input.Seed
       \o <<16, input.Height, 24, input.Round, 32, input.Step>>

\* The VRF value of (key, input).
VrfValue(pub, in) == Sha256(pub \o in)

\* vrfPriv.Evaluate(in): the hash and a proof that binds key and input.
Evaluate(priv, in) ==
    [hash |-> VrfValue(PubKey(priv), in),
     proof |-> [pub |-> PubKey(priv), in |-> in]]

calcuVrfHash(input, priv) == Evaluate(priv, Encode(input))

\* vrfPub.ProofToHash(input, proof): ok = FALSE stands for the error return.
\* A proof yields the VRF value only for the key and the input it was made for.
ProofToHash(pub, in, proof) ==
    IF proof.pub = pub /\ proof.in = in
    THEN [ok |-> TRUE, hash |-> VrfValue(pub, in)]
    ELSE [ok |-> FALSE, hash |-> <<>>]

\* TRUE iff vrfVerify returns nil (no error).
vrfVerify(pub, in, proof, hash) ==
    LET vrfHash == ProofToHash(pub, in, proof)
    IN  vrfHash.ok /\ vrfHash.hash = hash

\* --------------------------------------------------------------------
\* Messages (pt.Pos33SortMsg, pt.SortHash, pt.HashProof, pt.VrfInput).
\* --------------------------------------------------------------------
VrfInput(seed, height, round, step) ==
    [Seed |-> seed, Height |-> height, Round |-> round, Step |-> step]

HashProof(input, diff, vrfHash, vrfProof, pubkey) ==
    [Input |-> input, Diff |-> diff, VrfHash |-> vrfHash,
     VrfProof |-> vrfProof, Pubkey |-> pubkey]

Pos33SortMsg(hash, index, num, proof) ==
    [SortHash |-> [Hash |-> hash, Index |-> index, Num |-> num],
     Proof |-> proof]

\* float64 product diff * float64(a) / float64(b), exact.
ScaleDiff(diff, a, b) == [n |-> diff.n * a, d |-> diff.d * b]

\* pt.Sorts.Less: ascending unsigned byte order of SortHash.Hash.
SortsLess(a, b) == StrGreater(b.SortHash.Hash, a.SortHash.Hash)

\* sort.Sort(pt.Sorts(msgs)) is not stable: every ascending arrangement of
\* msgs is a possible outcome.  idx is the set of positions still to place.
RECURSIVE SortOutcomes(_, _)
SortOutcomes(msgs, idx) ==
    IF idx = {} THEN {<<>>}
    ELSE UNION {{<<msgs[i]>> \o t : t \in SortOutcomes(msgs, idx \ {i})} :
                i \in {i \in idx : \A j \in idx : ~SortsLess(msgs[j], msgs[i])}}

\* --------------------------------------------------------------------
\* voterSort (lines 38-86).  priv = NoKey stands for getPriv() == nil.
\* The loop over i in [0, count) appends every ticket under the threshold.
\* --------------------------------------------------------------------
RECURSIVE VoterLoop(_, _, _, _, _, _)
VoterLoop(i, count, num, diff, proof, acc) ==
    IF i >= count THEN acc
    ELSE LET hash == hash2(SortData(proof.VrfHash, i, num))
         IN  VoterLoop(i + 1, count, num, diff, proof,
                       IF DiffExceeded(hash, diff) THEN acc
                       ELSE Append(acc, Pos33SortMsg(hash, i, num, proof)))

\* the messages of the loop, before the cap
VoterAccepted(seed, height, round, num, diff0, count, priv) ==
    LET diff == ScaleDiff(diff0, Pos33VoterSize, Pos33MakerSize)
        input == VrfInput(seed, height, round, 1)
        vrf == calcuVrfHash(input, priv)
        proof == HashProof(input, diff, vrf.hash, vrf.proof, PubKey(priv))
    IN  VoterLoop(0, count, num, diff, proof, <<>>)

\* voterSort with the cap applied to the list in ticket order, unsorted
voterSort_Unsorted(seed, height, round, num, diff0, count, priv) ==
    IF priv = NoKey THEN {<<>>}
    ELSE LET all == VoterAccepted(seed, height, round, num, diff0, count, priv)
         IN  IF Len(all) > Pos33RewardVotes
             THEN {SubSeq(all, 1, Pos33RewardVotes)}
             ELSE {all}

\* the set of lists voterSort can return
voterSort(seed, height, round, num, diff0, count, priv) ==
    IF priv = NoKey THEN {<<>>}
    ELSE LET all == VoterAccepted(seed, height, round, num, diff0, count, priv)
         IN  IF Len(all) = 0 THEN {<<>>}
             ELSE IF Len(all) > Pos33RewardVotes
             THEN {SubSeq(s, 1, Pos33RewardVotes) :
                       s \in SortOutcomes(all, DOMAIN all)}
             ELSE {all}

\* --------------------------------------------------------------------
\* makerSort (lines 88-136).  k enumerates the (j, i) pairs in loop order:
\* j outer over the trials, i inner over the tickets.
\* --------------------------------------------------------------------
\* makerSort's loop keeping the first accepted pair instead of the least
RECURSIVE MakerLoop_First(_, _, _, _, _)
MakerLoop_First(k, count, diff, proof, minSort) ==
    IF k >= MakerTrials * count THEN minSort
    ELSE LET j == k \div count
             i == k % count
             hash == hash2(SortData(proof.VrfHash, i, j))
         IN  MakerLoop_First(k + 1, count, diff, proof,
                 IF DiffExceeded(hash, diff) \/ minSort # Nil THEN minSort
                 ELSE Pos33SortMsg(hash, i, j, proof))

RECURSIVE MakerLoop(_, _, _, _, _)
MakerLoop(k, count, diff, proof, minSort) ==
    IF k >= MakerTrials * count THEN minSort
    ELSE LET j == k \div count
             i == k % count
             hash == hash2(SortData(proof.VrfHash, i, j))
             m == Pos33SortMsg(hash, i, j, proof)
         IN  MakerLoop(k + 1, count, diff, proof,
                 IF DiffExceeded(hash, diff) THEN minSort
                 ELSE IF minSort = Nil THEN m
                 ELSE IF StrGreater(minSort.SortHash.Hash, hash) THEN m
                 ELSE minSort)

\* the list makerSort returns: always of one element, Nil when no pair
\* passed; the nil slice <<>> when there is no key
makerSort(seed, height, round, diff, count, priv) ==
    IF priv = NoKey THEN <<>>
    ELSE LET input == VrfInput(seed, height, round, 0)
             vrf == calcuVrfHash(input, priv)
             proof == HashProof(input, diff, vrf.hash, vrf.proof, PubKey(priv))
         IN  <<MakerLoop(0, count, diff, proof, Nil)>>

\* --------------------------------------------------------------------
\* verifySort (lines 169-224).  dep is the reply of queryDeposit for the
\* address of m.Proof.Pubkey: a deposit record, or Nil for an error.
\* --------------------------------------------------------------------
EffectiveCount(dep, height) ==
    IF dep.CloseHeight >= height - Pos33SortBlocks
    THEN dep.PreCount ELSE dep.Count

MsgIsNil(m) ==
    \/ m = Nil
    \/ m.Proof = Nil
    \/ m.SortHash = Nil
    \/ m.Proof.Input = Nil

\* if count <= m.SortHash.Index (line 186)
IndexRejected(count, m) == count <= m.SortHash.Index

\* if m.SortHash.Num >= 3 || m.SortHash.Num < 0 (line 198), for either step
NumRejected_ByStep(step, m) ==
    \/ m.SortHash.Num < 0
    \/ m.SortHash.Num >= (IF step = 0 THEN 3 ELSE Pos33RewardVotes)

NumRejected(step, m) == m.SortHash.Num >= 3 \/ m.SortHash.Num < 0

\* the recomputed hash compared on its first byte only
SortHashDiffers_FirstByte(m) ==
    hash2(SortData(m.Proof.VrfHash, m.SortHash.Index, m.SortHash.Num))[1]
        # m.SortHash.Hash[1]

\* if string(hash) != string(m.SortHash.Hash) (lines 201-203)
SortHashDiffers(m) ==
    hash2(SortData(m.Proof.VrfHash, m.SortHash.Index, m.SortHash.Num))
        # m.SortHash.Hash

\* the VRF input taken from the envelope of the message
VerifyInput_Envelope(height, step, seed, m) == m.Proof.Input

\* round := m.Proof.Input.Round; input := &pt.VrfInput{Seed: seed, Height:
\* height, Round: round, Step: int32(step)} (lines 190-191)
VerifyInput(height, step, seed, m) ==
    VrfInput(seed, height, m.Proof.Input.Round, step)

verifySort(height, step, seed, m, dep) ==
    IF height <= Pos33SortBlocks THEN "ok"
    ELSE IF MsgIsNil(m) THEN "ErrNilMsg"
    ELSE IF dep = Nil THEN "ErrDeposit"
    ELSE IF IndexRejected(EffectiveCount(dep, height), m) THEN "ErrIndex"
    ELSE IF ~vrfVerify(m.Proof.Pubkey,
                       Encode(VerifyInput(height, step, seed, m)),
                       m.Proof.VrfProof, m.Proof.VrfHash)
         THEN "ErrVrfVerify"
    ELSE IF NumRejected(step, m) THEN "ErrNum"
    ELSE IF SortHashDiffers(m) THEN "ErrSortHash"
    ELSE IF DiffExceeded(m.SortHash.Hash, m.Proof.Diff) THEN "errDiff"
    ELSE "ok"

\* --------------------------------------------------------------------
\* Second revision: calcDiff (lines 411-429), sort (lines 313-377) and
\* verifySort with allw (lines 431-474).  nvs is n.nvsMap.
\* --------------------------------------------------------------------
RECURSIVE SumVotes(_, _)
SumVotes(nvs, hs) ==
    IF hs = {} THEN 0
    ELSE LET h == CHOOSE x \in hs : TRUE
         IN  nvs[h] + SumVotes(nvs, hs \ {h})

\* calcDiff with the window test len(n.nvsMap) > calcuDiffBlockN
calcDiff_StrictWindow(step, allw, round, nvs) ==
    LET size == IF step = 0 THEN Pos33ProposerSize ELSE Pos33VoterSize
        len == Cardinality(DOMAIN nvs)
    IN  IF len > calcuDiffBlockN
        THEN [n |-> size * len * Pos33RewardVotes,
              d |-> allw * SumVotes(nvs, DOMAIN nvs)]
        ELSE [n |-> size, d |-> allw]

\* float64(size) / float64(allw) / onlineR as the exact rational n / d, with
\* onlineR = l / len / Pos33RewardVotes once the map holds calcuDiffBlockN
\* entries and 1 before.  d = 0 is the float +Inf of a division by zero.
calcDiff(step, allw, round, nvs) ==
    LET size == IF step = 0 THEN Pos33ProposerSize ELSE Pos33VoterSize
        len == Cardinality(DOMAIN nvs)
    IN  IF len >= calcuDiffBlockN
        THEN [n |-> size * len * Pos33RewardVotes,
              d |-> allw * SumVotes(nvs, DOMAIN nvs)]
        ELSE [n |-> size, d |-> allw]

\* the float64 zero value of a Diff field that is never set
ZeroDiff == [n |-> 0, d |-> 1]

\* sort's loop: msgs collects the accepted tickets, index is the position
\* in msgs of the least hash seen so far.
RECURSIVE SortLoop(_, _, _, _, _)
SortLoop(i, count, d, proof, st) ==
    IF i >= count THEN st
    ELSE LET hash == hash2(SortDataAllw(proof.VrfHash, i))
         IN  SortLoop(i + 1, count, d, proof,
                 IF DiffExceeded(hash, d) THEN st
                 ELSE LET first == IF st.minHash = <<>> THEN hash ELSE st.minHash
                          less == StrGreater(first, hash)
                      IN  [minHash |-> IF less THEN hash ELSE first,
                           index |-> IF less THEN Len(st.msgs) ELSE st.index,
                           msgs |-> Append(st.msgs,
                                           Pos33SortMsg(hash, i, 0, proof))])

\* the set of lists sort can return
sort(seed, height, round, step, allw, count, priv, nvs) ==
    IF allw < count \/ priv = NoKey THEN {<<>>}
    ELSE LET input == VrfInput(seed, height, round, step)
             vrf == calcuVrfHash(input, priv)
             proof == HashProof(input, ZeroDiff, vrf.hash, vrf.proof, PubKey(priv))
             st == SortLoop(0, count, calcDiff(step, allw, round, nvs), proof,
                            [minHash |-> <<>>, index |-> 0, msgs |-> <<>>])
         IN  IF Len(st.msgs) = 0 THEN {<<>>}
             ELSE IF step = 0 THEN {<<st.msgs[st.index + 1]>>}
             ELSE {IF Len(s) > Pos33VoterSize
                   THEN SubSeq(s, 1, Pos33VoterSize) ELSE s :
                      s \in SortOutcomes(st.msgs, DOMAIN st.msgs)}

verifySortAllw(height, step, allw, seed, m, dep, nvs) ==
    IF height <= Pos33SortitionSize THEN "ok"
    ELSE IF MsgIsNil(m) THEN "ErrNilMsg"
    ELSE IF dep = Nil THEN "ErrDeposit"
    ELSE IF (IF dep.CloseHeight >= height - Pos33SortitionSize
             THEN dep.PreCount ELSE dep.Count) <= m.SortHash.Index
         THEN "ErrIndex"
    ELSE IF ~vrfVerify(m.Proof.Pubkey,
                       Encode(VrfInput(seed, height, m.Proof.Input.Round, step)),
                       m.Proof.VrfProof, m.Proof.VrfHash)
         THEN "ErrVrfVerify"
    ELSE IF hash2(SortDataAllw(m.Proof.VrfHash, m.SortHash.Index))
               # m.SortHash.Hash
         THEN "ErrSortHash"
    ELSE IF DiffExceeded(m.SortHash.Hash,
                         calcDiff(step, allw, m.Proof.Input.Round, nvs))
         THEN "errDiff"
    ELSE "ok"

\* --------------------------------------------------------------------
\* Selection: getMakerSorts (lines 230-270) and bp (lines 480-521).
\* A table entry is a sequence in the order the loop ranges over it.
\* --------------------------------------------------------------------
\* the seed of a failed getSortSeed
NoSeed == <<>>

\* n.checkSort(s, seed, 0) of the first revision: verifySort at the height
\* the message declares.  TRUE iff it returns nil.
checkSort(s, seed, step, dep) ==
    /\ ~MsgIsNil(s)
    /\ verifySort(s.Proof.Input.Height, step, seed, s, dep) = "ok"

\* n.checkSort(s, seed, allw, 0) of the second revision
checkSortAllw(s, seed, allw, step, dep, nvs) ==
    /\ ~MsgIsNil(s)
    /\ verifySortAllw(s.Proof.Input.Height, step, allw, seed, s, dep, nvs) = "ok"

\* the loop of getMakerSorts over one n.cms[height][round][i]
RECURSIVE MinSortLoop(_, _, _, _)
MinSortLoop(ss, seed, dep, minSort) ==
    IF ss = <<>> THEN minSort
    ELSE LET s == Head(ss)
         IN  MinSortLoop(Tail(ss), seed, dep,
                 IF s = Nil THEN minSort
                 ELSE IF ~checkSort(s, seed, 0, dep) THEN minSort
                 ELSE IF minSort = Nil THEN s
                 ELSE IF StrGreater(minSort.SortHash.Hash, s.SortHash.Hash) THEN s
                 ELSE minSort)

\* getMakerSorts: pss[i], here at position i + 1.  seed = NoSeed stands for
\* an error of getSortSeed and table = Nil for a height or round that has
\* no entry in n.cms; both return nil.
getMakerSorts(table, seed, dep) ==
    IF seed = NoSeed \/ table = Nil THEN Nil
    ELSE [k \in 1..3 |-> MinSortLoop(table[k - 1], seed, dep, Nil)]

\* the first loop of bp: pss[string(s.SortHash.Hash)] = s, a later entry
\* replacing an earlier one with the same hash
RECURSIVE BpCollect(_, _, _, _, _, _)
BpCollect(ss, seed, allw, dep, nvs, acc) ==
    IF ss = <<>> THEN acc
    ELSE LET s == Head(ss)
         IN  BpCollect(Tail(ss), seed, allw, dep, nvs,
                 IF ~checkSortAllw(s, seed, allw, 0, dep, nvs) THEN acc
                 ELSE [h \in DOMAIN acc \cup {s.SortHash.Hash} |->
                          IF h = s.SortHash.Hash THEN s ELSE acc[h]])

\* bp: the least key of pss and the pubkey stored under it; the keys are
\* distinct, so the order the map is ranged over does not matter
bp(ss, seed, allw, dep, nvs) ==
    LET coll == IF seed = NoSeed THEN <<>>
                ELSE BpCollect(ss, seed, allw, dep, nvs, <<>>)
    IN  IF DOMAIN coll = {} THEN [min |-> <<>>, pubkey |-> <<>>]
        ELSE LET min == CHOOSE h \in DOMAIN coll :
                            \A g \in DOMAIN coll : ~StrGreater(h, g)
             IN  [min |-> min, pubkey |-> coll[min].Proof.Pubkey]

\* --------------------------------------------------------------------
\* State.
\*   pc      phase of the scenario
\*   args    inputs of the last producer call
\*   msgs    the list the producer returned
\*   msg     the message handed to the verifier
\*   ctx     the verifier's own height, step, seed (and allw)
\*   dep     the reply of queryDeposit
\*   err     the verifier's verdict
\* --------------------------------------------------------------------
\*   nvsMap  the difficulty controller's map height -> vote count
\*   cdiff   the value calcDiff returned
\*   cms     n.cms[height][round]: per num, the maker sorts in arrival order
\*   cps     n.cps[height][round]: the proposer sorts in arrival order
\*   pss     the value getMakerSorts returned
\*   bpRet   the value bp returned
VARIABLES pc, args, msgs, msg, ctx, dep, err, nvsMap, cdiff, cms, cps, pss, bpRet

aggVars == <<cms, cps, pss, bpRet>>

vars == <<pc, args, msgs, msg, ctx, dep, err, nvsMap, cdiff, cms, cps, pss, bpRet>>

Keys == {1, 2}

Seeds == {<<0>>, <<255>>}

Heights == Pos33SortBlocks..MaxHeight

Rounds == {0, 1}

Counts == 0..MaxCount

\* float64 difficulties: 0, 1/4, 1 and 2
Diffs == {[n |-> k, d |-> 4] : k \in {0, 1, 4, 8}}

Deposit(count, preCount, closeHeight) ==
    [Count |-> count, PreCount |-> preCount, CloseHeight |-> closeHeight]

Init ==
    /\ pc = "idle"
    /\ args = Nil
    /\ msgs = <<>>
    /\ msg = Nil
    /\ ctx = Nil
    /\ dep = Nil
    /\ err = "none"
    /\ nvsMap = <<>>
    /\ cdiff = Nil
    /\ cms = Nil
    /\ cps = <<>>
    /\ pss = Nil
    /\ bpRet = Nil

Call(op, seed, height, round, step, num, diff, count, priv) ==
    [op |-> op, seed |-> seed, height |-> height, round |-> round,
     step |-> step, num |-> num, diff |-> diff, count |-> count, priv |-> priv]

\* n.makerSort(seed, height, round); diff is the value of n.getDiff,
\* count of n.myCount() and priv of n.getPriv().
MakerSort ==
    /\ pc = "idle"
    /\ \E seed \in Seeds, height \in Heights, round \in Rounds,
          diff \in Diffs, count \in Counts, priv \in Keys \cup {NoKey} :
          /\ args' = Call("makerSort", seed, height, round, 0, 0, diff, count, priv)
          /\ msgs' = makerSort(seed, height, round, diff, count, priv)
    /\ pc' = "sorted"
    /\ UNCHANGED <<msg, ctx, dep, err, nvsMap, cdiff, aggVars>>

\* n.voterSort(seed, height, round, num, diff)
VoterSort ==
    /\ pc = "idle"
    /\ \E seed \in Seeds, height \in Heights, round \in Rounds,
          num \in 0..(Pos33RewardVotes - 1),
          diff \in Diffs, count \in Counts, priv \in Keys \cup {NoKey} :
          /\ args' = Call("voterSort", seed, height, round, 1, num, diff, count, priv)
          /\ msgs' \in voterSort(seed, height, round, num, diff, count, priv)
    /\ pc' = "sorted"
    /\ UNCHANGED <<msg, ctx, dep, err, nvsMap, cdiff, aggVars>>

\* Deposit replies tried for a producer with `count` tickets at `height`.
OwnDeposits(count, height) ==
    {Nil} \cup
    {Deposit(c, p, ch) : c \in {count, MaxCount}, p \in {count, MaxCount},
                         ch \in {0, height - Pos33SortBlocks}}

\* A receiver runs verifySort on an element of the returned list with the
\* producer's height, step and seed.
VerifySorted ==
    /\ pc = "sorted"
    /\ \E k \in DOMAIN msgs, d \in OwnDeposits(args.count, args.height) :
          /\ msg' = msgs[k]
          /\ dep' = d
          /\ ctx' = [height |-> args.height, step |-> args.step, seed |-> args.seed]
          /\ err' = verifySort(args.height, args.step, args.seed, msgs[k], d)
    /\ pc' = "verified"
    /\ UNCHANGED <<args, msgs, nvsMap, cdiff, aggVars>>

NextSort == MakerSort \/ VoterSort \/ VerifySorted

SpecSort == Init /\ [][NextSort]_vars

\* --------------------------------------------------------------------
\* The verifier on received messages (SpecVerify).
\* --------------------------------------------------------------------
Steps == {0, 1}

\* A message as the holder of key `priv` can build it for an input of its
\* choice: the VRF hash and proof are those of its key, and the sort hash is
\* the digest of the canonical string for the index and num it declares,
\* whatever its ticket count and whatever the hash ratio.
Forged(priv, input, index, num, diff) ==
    LET vrf == calcuVrfHash(input, priv)
    IN  Pos33SortMsg(hash2(SortData(vrf.hash, index, num)), index, num,
                     HashProof(input, diff, vrf.hash, vrf.proof, PubKey(priv)))

\* Deposit replies of the host, and the error reply.
Deposits ==
    {Nil} \cup
    {Deposit(c, p, ch) : c \in {0, MaxIndex, MaxIndex + 1},
                         p \in {0, MaxIndex + 1},
                         ch \in 0..(MaxHeight - Pos33SortBlocks)}

\* A message arrives from the network.
Receive ==
    /\ pc = "idle"
    /\ \E priv \in Keys, seed \in Seeds, height \in Heights, round \in Rounds,
          step \in Steps, index \in (-1)..MaxIndex,
          num \in (-1)..Pos33RewardVotes, diff \in Diffs :
          /\ args' = Call("receive", seed, height, round, step, num, diff, 0, priv)
          /\ msg' = Forged(priv, VrfInput(seed, height, round, step),
                           index, num, diff)
    /\ pc' = "received"
    /\ UNCHANGED <<msgs, ctx, dep, err, nvsMap, cdiff, aggVars>>

\* The verifier's (height, step, seed): those the message was made for, or
\* differing from them in one of the three.
Contexts(input) ==
    {c \in [height : Heights, step : Steps, seed : Seeds] :
        Cardinality({f \in {"height", "step", "seed"} :
            c[f] # (IF f = "height" THEN input.Height
                    ELSE IF f = "step" THEN input.Step ELSE input.Seed)}) <= 1}

\* n.verifySort(height, step, seed, m)
VerifySort ==
    /\ pc = "received"
    /\ \E c \in Contexts(msg.Proof.Input), d \in Deposits :
          /\ ctx' = c
          /\ dep' = d
          /\ err' = verifySort(c.height, c.step, c.seed, msg, d)
    /\ pc' = "verified"
    /\ UNCHANGED <<args, msgs, msg, nvsMap, cdiff, aggVars>>

\* The hash with one bit flipped: bit b of byte k.
RECURSIVE Pow2(_)
Pow2(b) == IF b = 0 THEN 1 ELSE 2 * Pow2(b - 1)

FlipBit(hash, k, b) ==
    [hash EXCEPT ![k] = IF (hash[k] \div Pow2(b)) % 2 = 1
                        THEN hash[k] - Pow2(b) ELSE hash[k] + Pow2(b)]

\* An accepted message is verified again with its sort hash altered.
TamperHash ==
    /\ pc = "verified" /\ err = "ok" /\ ctx.height > Pos33SortBlocks
    /\ \E k \in 1..HashLen, b \in 0..7 :
          /\ msg' = [msg EXCEPT !.SortHash.Hash = FlipBit(@, k, b)]
          /\ err' = verifySort(ctx.height, ctx.step, ctx.seed, msg', dep)
    /\ pc' = "tampered"
    /\ UNCHANGED <<args, msgs, ctx, dep, nvsMap, cdiff, aggVars>>

\* A message rejected by the threshold is verified again with a larger
\* declared diff.
RaiseDiff ==
    /\ pc = "verified" /\ err = "errDiff"
    /\ \E diff \in Diffs :
          /\ diff.n * msg.Proof.Diff.d > msg.Proof.Diff.n * diff.d
          /\ msg' = [msg EXCEPT !.Proof.Diff = diff]
          /\ err' = verifySort(ctx.height, ctx.step, ctx.seed, msg', dep)
    /\ pc' = "raised"
    /\ UNCHANGED <<args, msgs, ctx, dep, nvsMap, cdiff, aggVars>>

NextVerify == Receive \/ VerifySort \/ TamperHash \/ RaiseDiff

SpecVerify == Init /\ [][NextVerify]_vars

\* --------------------------------------------------------------------
\* The second revision with its difficulty controller (SpecAllw).
\* --------------------------------------------------------------------
VoteHeights == {1, 2, 3}

VoteCounts == {0, 1, Pos33RewardVotes}

Allws == 1..MaxAllw

\* The round protocol records the votes seen at a height.
RecordVotes ==
    /\ pc = "idle"
    /\ \E h \in VoteHeights, v \in VoteCounts :
          nvsMap' = [x \in DOMAIN nvsMap \cup {h} |->
                        IF x = h THEN v ELSE nvsMap[x]]
    /\ UNCHANGED <<pc, args, msgs, msg, ctx, dep, err, cdiff, aggVars>>

\* The round protocol drops a height that left the window.
ForgetVotes ==
    /\ pc = "idle"
    /\ \E h \in DOMAIN nvsMap :
          nvsMap' = [x \in DOMAIN nvsMap \ {h} |-> nvsMap[x]]
    /\ UNCHANGED <<pc, args, msgs, msg, ctx, dep, err, cdiff, aggVars>>

\* n.calcDiff(step, allw, round)
CalcDiff ==
    /\ pc = "idle"
    /\ \E step \in Steps, allw \in Allws, round \in Rounds :
          /\ args' = [op |-> "calcDiff", step |-> step, allw |-> allw,
                      round |-> round]
          /\ cdiff' = calcDiff(step, allw, round, nvsMap)
    /\ pc' = "diffed"
    /\ UNCHANGED <<msgs, msg, ctx, dep, err, nvsMap, aggVars>>

\* n.sort(seed, height, round, step, allw)
SortAllw ==
    /\ pc = "idle"
    /\ \E seed \in Seeds, step \in Steps, allw \in Allws, count \in Counts,
          priv \in Keys \cup {NoKey} :
          /\ args' = [Call("sort", seed, MaxHeight, 0, step, 0, ZeroDiff,
                           count, priv) EXCEPT !.diff = calcDiff(step, allw, 0, nvsMap)]
          /\ ctx' = [height |-> MaxHeight, step |-> step, seed |-> seed,
                     allw |-> allw]
          /\ msgs' \in sort(seed, MaxHeight, 0, step, allw, count, priv, nvsMap)
    /\ pc' = "sorted"
    /\ UNCHANGED <<msg, dep, err, nvsMap, cdiff, aggVars>>

\* A receiver verifies an element of the list sort returned, with the
\* producer's height, step, seed and allw.
VerifySortedAllw ==
    /\ pc = "sorted"
    /\ \E k \in DOMAIN msgs,
          d \in {Nil, Deposit(args.count, 0, 0), Deposit(0, args.count, MaxHeight)} :
          /\ msg' = msgs[k]
          /\ dep' = d
          /\ err' = verifySortAllw(ctx.height, ctx.step, ctx.allw, ctx.seed,
                                   msgs[k], d, nvsMap)
    /\ pc' = "verified"
    /\ UNCHANGED <<args, msgs, ctx, nvsMap, cdiff, aggVars>>

\* The second revision's canonical string has no num.
ForgedAllw(priv, input, index, d) ==
    LET vrf == calcuVrfHash(input, priv)
    IN  Pos33SortMsg(hash2(SortDataAllw(vrf.hash, index)), index, 0,
                     HashProof(input, d, vrf.hash, vrf.proof, PubKey(priv)))

\* A message arrives from the network, with a diff its sender declares.
ReceiveAllw ==
    /\ pc = "idle"
    /\ \E priv \in Keys, step \in Steps, index \in (-1)..MaxIndex, d \in Diffs :
          /\ args' = Call("receive", <<0>>, MaxHeight, 0, step, 0, d, 0, priv)
          /\ msg' = ForgedAllw(priv, VrfInput(<<0>>, MaxHeight, 0, step), index, d)
    /\ pc' = "received"
    /\ UNCHANGED <<msgs, ctx, dep, err, nvsMap, cdiff, aggVars>>

\* n.verifySort(height, step, allw, seed, m)
VerifySortAllw ==
    /\ pc = "received"
    /\ \E allw \in Allws,
          d \in {Nil, Deposit(MaxIndex + 1, 0, 0), Deposit(0, MaxIndex, MaxHeight)} :
          /\ ctx' = [height |-> msg.Proof.Input.Height, step |-> msg.Proof.Input.Step,
                     seed |-> msg.Proof.Input.Seed, allw |-> allw]
          /\ dep' = d
          /\ err' = verifySortAllw(msg.Proof.Input.Height, msg.Proof.Input.Step,
                                   allw, msg.Proof.Input.Seed, msg, d, nvsMap)
    /\ pc' = "verified"
    /\ UNCHANGED <<args, msgs, msg, nvsMap, cdiff, aggVars>>

NextAllw ==
    \/ RecordVotes \/ ForgetVotes \/ CalcDiff
    \/ SortAllw \/ VerifySortedAllw \/ ReceiveAllw \/ VerifySortAllw

SpecAllw == Init /\ [][NextAllw]_vars

\* --------------------------------------------------------------------
\* Selection of the winning sorts (SpecAgg), for one height and round.
\* --------------------------------------------------------------------
AggSeed == <<0>>

\* the deposit every sender of the scenario holds
AggDeposit == Deposit(MaxIndex + 1, 0, 0)

\* the diffs the senders declare: 0, 3/4 and 1
AggDiffs == {[n |-> k, d |-> 4] : k \in {0, 3, 4}}

MakerCandidates ==
    {Forged(priv, VrfInput(AggSeed, MaxHeight, 0, 0), 0, num, d) :
        priv \in Keys, num \in 0..2, d \in AggDiffs}

ProposerCandidates ==
    {ForgedAllw(priv, VrfInput(AggSeed, MaxHeight, 0, 0), index, d) :
        priv \in Keys, index \in 0..MaxIndex, d \in {ZeroDiff, [n |-> 4, d |-> 4]}}

Stored == IF cms = Nil THEN 0 ELSE Len(cms[0]) + Len(cms[1]) + Len(cms[2])

\* A maker sort is stored under its num, after those that came before.
InsertMakerSort ==
    /\ pc = "idle" /\ cps = <<>> /\ Stored < MaxSorts
    /\ \E m \in MakerCandidates :
          cms' = [i \in 0..2 |->
                    LET old == IF cms = Nil THEN <<>> ELSE cms[i]
                    IN  IF i = m.SortHash.Num THEN Append(old, m) ELSE old]
    /\ UNCHANGED <<pc, args, msgs, msg, ctx, dep, err, nvsMap, cdiff, cps, pss, bpRet>>

\* A proposer sort of the second revision is stored.
InsertProposerSort ==
    /\ pc = "idle" /\ cms = Nil /\ Len(cps) < MaxSorts
    /\ \E m \in ProposerCandidates : cps' = Append(cps, m)
    /\ UNCHANGED <<pc, args, msgs, msg, ctx, dep, err, nvsMap, cdiff, cms, pss, bpRet>>

\* n.getMakerSorts(height, round)
GetMakerSorts ==
    /\ pc = "idle" /\ cps = <<>>
    /\ \E seed \in {AggSeed, NoSeed} : pss' = getMakerSorts(cms, seed, AggDeposit)
    /\ pc' = "picked"
    /\ UNCHANGED <<args, msgs, msg, ctx, dep, err, nvsMap, cdiff, cms, cps, bpRet>>

\* n.bp(height, round); allw is n.allCount(sortHeight)
Bp ==
    /\ pc = "idle" /\ cms = Nil
    /\ \E seed \in {AggSeed, NoSeed} :
          bpRet' = bp(cps, seed, MaxAllw, AggDeposit, nvsMap)
    /\ pc' = "bp"
    /\ UNCHANGED <<args, msgs, msg, ctx, dep, err, nvsMap, cdiff, cms, cps, pss>>

NextAgg == InsertMakerSort \/ InsertProposerSort \/ GetMakerSorts \/ Bp

SpecAgg == Init /\ [][NextAgg]_vars

\* --------------------------------------------------------------------
\* Claims on the producers (SpecSort).
\* --------------------------------------------------------------------
\* The effective deposit count equals the producer's ticket count.
DepositMatches == dep # Nil /\ EffectiveCount(dep, args.height) = args.count

\* The VRF hash of the producer call recorded in args.
ArgsVrfHash ==
    calcuVrfHash(VrfInput(args.seed, args.height, args.round, args.step),
                 args.priv).hash

\* The threshold of the call: voterSort widens diff by VoterSize / MakerSize.
ArgsDiff ==
    IF args.op = "voterSort"
    THEN ScaleDiff(args.diff, Pos33VoterSize, Pos33MakerSize)
    ELSE args.diff

\* The (ticket, trial) pairs of the call whose hash ratio is within the
\* threshold, as <<index, num, hash>>.
ArgsTrials == IF args.op = "makerSort" THEN 0..(MakerTrials - 1) ELSE {args.num}

AcceptedPairs ==
    IF args.priv = NoKey THEN {}
    ELSE {t \in {<<i, j, hash2(SortData(ArgsVrfHash, i, j))>> :
                    i \in 0..(args.count - 1), j \in ArgsTrials} :
             SetBytes(t[3]) * ArgsDiff.d <= ArgsDiff.n * fmax}

\* C1 (as claimed): every element of the list returned by makerSort or by
\* voterSort (any num in [0, Pos33RewardVotes)) at a height above
\* Pos33SortBlocks is accepted by verifySort with the same height, step and
\* seed when the deposit reports the producer's ticket count.
C1_RoundTrip ==
    (pc = "verified" /\ args.height > Pos33SortBlocks /\ DepositMatches)
        => err = "ok"

\* C1, restricted to what the code does: non-nil elements with Num below
\* the number of maker trials are accepted.
C1_RoundTripBelowTrials ==
    (pc = "verified" /\ args.height > Pos33SortBlocks /\ DepositMatches
        /\ msg # Nil /\ msg.SortHash.Num < MakerTrials)
        => err = "ok"

C1_WitnessAccepted ==
    pc = "verified" /\ args.height > Pos33SortBlocks /\ DepositMatches
        /\ msg # Nil /\ err = "ok" /\ args.op = "voterSort"

\* C2 (as claimed): makerSort returns exactly one message when some
\* (ticket, trial) pair passes the threshold and the empty list when none
\* does, and the list never holds a nil message.
C2_MakerOneOrEmpty ==
    (pc = "sorted" /\ args.op = "makerSort")
        => /\ \A k \in DOMAIN msgs : msgs[k] # Nil
           /\ Len(msgs) = IF AcceptedPairs = {} THEN 0 ELSE 1

\* What makerSort does with a key: a list of one element, nil iff no pair
\* passed.
C2_MakerOneElement ==
    (pc = "sorted" /\ args.op = "makerSort" /\ args.priv # NoKey)
        => /\ Len(msgs) = 1
           /\ (msgs[1] = Nil) <=> (AcceptedPairs = {})

\* C3: voterSort returns at most Pos33RewardVotes messages, all of them
\* accepted entries; all accepted entries when there are no more than
\* Pos33RewardVotes of them, and otherwise Pos33RewardVotes entries none of
\* which has a larger hash than an accepted entry left out.
C3_VoterCap ==
    (pc = "sorted" /\ args.op = "voterSort")
        => LET got == {<<msgs[k].SortHash.Index, msgs[k].SortHash.Num,
                         msgs[k].SortHash.Hash>> : k \in DOMAIN msgs}
           IN  /\ Len(msgs) <= Pos33RewardVotes
               /\ Cardinality(got) = Len(msgs)
               /\ got \subseteq AcceptedPairs
               /\ Cardinality(AcceptedPairs) <= Pos33RewardVotes
                      => got = AcceptedPairs
               /\ Cardinality(AcceptedPairs) > Pos33RewardVotes
                      => /\ Len(msgs) = Pos33RewardVotes
                         /\ \A a \in got, b \in AcceptedPairs \ got :
                               SetBytes(a[3]) <= SetBytes(b[3])

\* more tickets passed than the cap, and the cut dropped an earlier ticket
C3_WitnessCut ==
    /\ pc = "sorted" /\ args.op = "voterSort"
    /\ Cardinality(AcceptedPairs) > Pos33RewardVotes
    /\ Len(msgs) = Pos33RewardVotes
    /\ \E t \in AcceptedPairs :
          /\ t[1] < msgs[Len(msgs)].SortHash.Index
          /\ \A k \in DOMAIN msgs : msgs[k].SortHash.Index # t[1]

\* C4: the message makerSort returns carries the smallest hash (unsigned
\* byte order) among all accepted (ticket, trial) pairs, together with the
\* index and num of a pair that produced it.
C4_MakerMin ==
    (pc = "sorted" /\ args.op = "makerSort" /\ Len(msgs) = 1 /\ msgs[1] # Nil)
        => LET w == msgs[1].SortHash
           IN  /\ <<w.Index, w.Num, w.Hash>> \in AcceptedPairs
               /\ \A t \in AcceptedPairs : ~StrGreater(w.Hash, t[3])

\* several pairs passed and the winner is not the first of them in loop order
C4_WitnessLaterWins ==
    /\ pc = "sorted" /\ args.op = "makerSort" /\ Len(msgs) = 1 /\ msgs[1] # Nil
    /\ Cardinality(AcceptedPairs) >= 3
    /\ \E t \in AcceptedPairs :
          /\ t[2] < msgs[1].SortHash.Num
          /\ StrGreater(t[3], msgs[1].SortHash.Hash)

\* --------------------------------------------------------------------
\* Claims on the verifier (SpecVerify).
\* --------------------------------------------------------------------
\* the verifier ran above the genesis window
Verified == pc \in {"verified", "tampered", "raised"} /\ ctx.height > Pos33SortBlocks

\* C5 (as claimed): a message verifySort accepts above Pos33SortBlocks has
\* 0 <= index < count, count being PreCount when CloseHeight >= height -
\* Pos33SortBlocks and Count otherwise; a negative index is rejected.
C5_IndexInRange ==
    (Verified /\ err = "ok")
        => /\ 0 <= msg.SortHash.Index
           /\ msg.SortHash.Index < EffectiveCount(dep, ctx.height)

\* What the code enforces: the upper end of the range.
C5_IndexBelowCount ==
    (Verified /\ err = "ok")
        => msg.SortHash.Index < EffectiveCount(dep, ctx.height)

\* the checks that run before the num check let the message through
ReachedNumCheck ==
    Verified /\ pc = "verified"
        /\ err \notin {"ErrNilMsg", "ErrDeposit", "ErrIndex", "ErrVrfVerify"}

\* C6 (as claimed): the legal range of Num is [0, 3) for step 0 and
\* [0, Pos33RewardVotes) for step 1: a message that reaches the check is
\* rejected as invalid-num iff its Num is outside the range of the step.
C6_NumRangeByStep ==
    ReachedNumCheck
        => (err = "ErrNum"
               <=> msg.SortHash.Num \notin
                      0..((IF ctx.step = 0 THEN 3 ELSE Pos33RewardVotes) - 1))

\* C6 (amended): the legal range of Num is [0, 3) for both steps.
C6_NumRangeBothSteps ==
    ReachedNumCheck => (err = "ErrNum" <=> msg.SortHash.Num \notin 0..2)

\* a voter message with Num in [3, Pos33RewardVotes) is rejected for its Num
C6_WitnessVoterNum ==
    /\ ReachedNumCheck /\ ctx.step = 1 /\ err = "ErrNum"
    /\ msg.SortHash.Num \in 3..(Pos33RewardVotes - 1)

\* C7: an accepted message whose sort hash is replaced by a different value
\* is rejected with the hash-mismatch error and no other verdict.
C7_TamperedHash == (pc = "tampered") => err = "ErrSortHash"

\* the altered hash alone would pass the declared threshold
C7_WitnessTampered ==
    /\ pc = "tampered" /\ err = "ErrSortHash"
    /\ ~DiffExceeded(msg.SortHash.Hash, msg.Proof.Diff)

\* the verifier ran above the genesis window on a context that is not the one
\* the message was produced for: another seed, another height or the other step
Replayed ==
    /\ Verified
    /\ \/ ctx.seed # msg.Proof.Input.Seed
       \/ ctx.height # msg.Proof.Input.Height
       \/ ctx.step # msg.Proof.Input.Step

\* the message is one verifySort accepts in the context it was produced for,
\* against the same deposit record
ValidAtOrigin ==
    /\ msg.Proof.Input.Height > Pos33SortBlocks
    /\ verifySort(msg.Proof.Input.Height, msg.Proof.Input.Step,
                  msg.Proof.Input.Seed, msg, dep) = "ok"

\* C11 (as claimed): a message produced for (seed, height, step) and verified
\* above Pos33SortBlocks under a different seed, a different height or the
\* other step is rejected with the VRF error.  Stated here for the most
\* favourable case: the sender's deposit is on record and the message is
\* valid in the context it was produced for.
C11_ReplayVrfError ==
    (Replayed /\ dep # Nil /\ ValidAtOrigin) => err = "ErrVrfVerify"

\* C11 (amended): a message verified outside the context it was produced for
\* is never accepted.  The deposit lookup and the index check run first, so
\* the verdict is the VRF error iff the lookup succeeds and the index is below
\* the count in force at the verifier's height, and the lookup or index error
\* otherwise.  The verdict does not depend on the seed, height and step the
\* envelope declares: only its round enters the rebuilt input.
C11_NoReplay ==
    /\ Replayed
          => /\ err \in {"ErrDeposit", "ErrIndex", "ErrVrfVerify"}
             /\ err = "ErrDeposit" <=> dep = Nil
             /\ err = "ErrVrfVerify"
                   <=> /\ dep # Nil
                       /\ ~IndexRejected(EffectiveCount(dep, ctx.height), msg)
    /\ (Verified /\ pc = "verified")
          => \A s \in Seeds, h \in Heights, st \in Steps :
                verifySort(ctx.height, ctx.step, ctx.seed,
                           [msg EXCEPT !.Proof.Input =
                               VrfInput(s, h, msg.Proof.Input.Round, st)],
                           dep) = err

\* a message valid where it was produced is refused for its VRF proof elsewhere
C11_WitnessReplayRejected ==
    /\ Replayed /\ dep # Nil /\ ValidAtOrigin
    /\ err = "ErrVrfVerify"

\* --------------------------------------------------------------------
\* Claims on the second revision (SpecAllw) and on the selection (SpecAgg).
\* --------------------------------------------------------------------
\* the inputs of the calcDiff call recorded in args, computed from the map
VotesAt(h) == IF h \in DOMAIN nvsMap THEN nvsMap[h] ELSE 0

VoteTotal == VotesAt(1) + VotesAt(2) + VotesAt(3)

WindowFull == Cardinality(DOMAIN nvsMap) >= calcuDiffBlockN

TargetSize == IF args.step = 0 THEN Pos33ProposerSize ELSE Pos33VoterSize

\* online_rate = RateNum / RateDen
RateNum == IF WindowFull THEN VoteTotal ELSE 1

RateDen == IF WindowFull THEN Cardinality(DOMAIN nvsMap) * Pos33RewardVotes ELSE 1

\* C9 (as claimed): for every state of the map and every allw >= 1 the
\* difficulty calcDiff returns lies in (0, 1].
C9_DiffInUnitInterval ==
    (pc = "diffed" /\ args.allw >= 1)
        => /\ cdiff.d > 0
           /\ 0 < cdiff.n
           /\ cdiff.n <= cdiff.d

\* C9 (amended): the difficulty is target_size / allw / online_rate, with
\* online_rate = 1 below the window and sum / (entries * Pos33RewardVotes)
\* from the window on; it is positive, +Inf (d = 0) exactly when
\* online_rate is 0, and at most 1 exactly when
\* target_size <= allw * online_rate.
C9_DiffFormula ==
    (pc = "diffed" /\ args.allw >= 1)
        => /\ cdiff.n > 0 /\ cdiff.d >= 0
           /\ cdiff.n * (args.allw * RateNum) = cdiff.d * (TargetSize * RateDen)
           /\ (cdiff.d = 0) <=> (RateNum = 0)
           /\ (cdiff.d > 0 /\ cdiff.n <= cdiff.d)
                 <=> (TargetSize * RateDen <= args.allw * RateNum)

\* a full window whose difficulty is finite and above 1
C9_WitnessAboveOne ==
    /\ pc = "diffed" /\ args.allw >= 1 /\ WindowFull
    /\ cdiff.d > 0 /\ cdiff.n > cdiff.d

\* the second revision's verifier ran above the genesis window and the
\* message reached the threshold test
ReachedThresholdAllw ==
    /\ pc = "verified" /\ ctx.height > Pos33SortitionSize
    /\ err \in {"ok", "errDiff"}

\* the maps the controller can hold
VoteMaps == UNION {[hs -> VoteCounts] : hs \in SUBSET VoteHeights}

\* C10 (as claimed): the threshold test uses only the diff the message
\* declares: the verdict is the same for every state of the difficulty
\* controller and every total ticket count, and a message whose hash ratio
\* is within its declared diff is not rejected by the test.
C10_DeclaredDiffOnly ==
    ReachedThresholdAllw
        => /\ \A allw \in Allws, nvs \in VoteMaps :
                 verifySortAllw(ctx.height, ctx.step, allw, ctx.seed,
                                msg, dep, nvs) = err
           /\ ~DiffExceeded(msg.SortHash.Hash, msg.Proof.Diff) => err = "ok"

\* C10 on the first revision's verifier: the threshold verdict is that of
\* the declared diff, and raising the declared diff to the ratio or above
\* makes the message pass.
C10_FirstRevision ==
    /\ (Verified /\ err \in {"ok", "errDiff"})
          => ((err = "errDiff")
                 <=> DiffExceeded(msg.SortHash.Hash, msg.Proof.Diff))
    /\ (pc = "raised" /\ ~DiffExceeded(msg.SortHash.Hash, msg.Proof.Diff))
          => err = "ok"

\* every arrangement of the elements of a sequence
Perms(ss) ==
    {[k \in DOMAIN ss |-> ss[f[k]]] :
        f \in {g \in [DOMAIN ss -> DOMAIN ss] :
                  \A a, b \in DOMAIN ss : a # b => g[a] # g[b]}}

\* C8 (as claimed): whatever the order in which the stored sorts were
\* inserted and are ranged over, getMakerSorts yields the same winning
\* message per num and bp the same (min hash, pubkey), also when stored
\* messages carry equal sort hashes.
C8_OrderIndependent ==
    /\ (pc = "picked" /\ pss # Nil)
          => \A i \in 0..2 : \A p \in Perms(cms[i]) :
                MinSortLoop(p, AggSeed, AggDeposit, Nil) = pss[i + 1]
    /\ (pc = "bp")
          => \A p \in Perms(cps) :
                \A seed \in {AggSeed, NoSeed} :
                   (bp(cps, seed, MaxAllw, AggDeposit, nvsMap) = bpRet)
                      => bp(p, seed, MaxAllw, AggDeposit, nvsMap) = bpRet

\* the winning hash per num does not depend on the order
C8_WinningHashIndependent ==
    (pc = "picked" /\ pss # Nil)
        => \A i \in 0..2 : \A p \in Perms(cms[i]) :
              LET w == MinSortLoop(p, AggSeed, AggDeposit, Nil)
              IN  /\ (w = Nil) <=> (pss[i + 1] = Nil)
                  /\ w # Nil => w.SortHash.Hash = pss[i + 1].SortHash.Hash

\* the value of bp does not depend on the order
C8_BpIndependent ==
    (pc = "bp")
        => \A p \in Perms(cps) :
              \A seed \in {AggSeed, NoSeed} :
                 (bp(cps, seed, MaxAllw, AggDeposit, nvsMap) = bpRet)
                    => bp(p, seed, MaxAllw, AggDeposit, nvsMap) = bpRet

=============================================================================
